---- MODULE Spec2Model ----
(***************************************************************************)
(* Model of the duplicate-file engine of deduper (scanner.py):             *)
(* DuplicateScanner.__init__, scan and its stages, output_results and      *)
(* purge_duplicates; of delete_duplicates (deduper/core.py); and of the    *)
(* scan command of the command line (cli.py: main).                        *)
(*                                                                         *)
(* A path is a sequence of names, as pathlib.Path is a sequence of parts.  *)
(* The filesystem tree maps each real path to a node: a file with its       *)
(* bytes, a directory with the order in which it lists its entries and     *)
(* whether it can be listed, a symbolic link with its target, or nothing.  *)
(* A digest is modelled by the algorithm name and the bytes fed to it, so  *)
(* two digests are equal exactly when the same bytes were hashed by the    *)
(* same algorithm (no collisions).                                         *)
(***************************************************************************)
EXTENDS Integers, Sequences, FiniteSets, TLC

VARIABLES
    fs,             \* the filesystem
    config,         \* the scanner's attributes, set by __init__
    pc,             \* "unbuilt", "ready" / "init_raised" (the constructor
                    \* returned / raised), "scanned" / "raised" (scan returned /
                    \* raised), "given" (groups handed in by the caller), "purged",
                    \* "deleted"; in a command line run the position in main:
                    \* "cli_start", "cli_ready", "cli_scanning", "cli_scanned",
                    \* "cli_reported", "cli_exited"; while the files
                    \* are collected step by step "walking", then "walked"
    call,           \* the arguments of the constructor and of the scan call
    collected,      \* scan's local `files`: what _collect_files returned
    groups,         \* the list scan returned; the argument of purge_duplicates
    dry_run,        \* the dry_run argument of the purge call
    removed_count,  \* what purge_duplicates returned
    log,            \* the lines purge_duplicates printed, one entry each
    cli,            \* the command line run: its arguments, the scan in progress,
                    \* what it wrote and its exit status
    walk            \* _collect_files in progress: the roots, the entries still to
                    \* visit, and the directories listed so far

vars == <<fs, config, pc, call, collected, groups, dry_run, removed_count, log, cli, walk>>

(***************************** bounds **************************************)
\* longest file content, in bytes
MaxLen == 1
\* longest list of roots handed to scan
MaxRoots == 2
\* largest min_size / max_size tried
MaxSize == 1
\* largest positive chunk_size tried (besides the default)
MaxChunk == 1
\* the longest file and the largest chunk_size of the pairwise comparison
MaxFileLen == 3
MaxChunkSize == 3
\* the sizes formatted: up to MaxHalves halves of a unit
MaxHalves == 30
\* symbolic links followed while resolving one path
MaxHops == 2
\* purge_duplicates on arbitrary lists of groups: members in all groups together
MaxMembers == 4

(***************************** helpers *************************************)
ByteValues == {0, 1}

SeqsUpTo(S, n) == UNION {[1..k -> S] : k \in 0..n}

Contents == SeqsUpTo(ByteValues, MaxLen)

Min(a, b) == IF a < b THEN a ELSE b

Range(s) == {s[i] : i \in 1..Len(s)}

\* the elements of items at the indices in I, in increasing index order
AtIndices(items, I) ==
    [n \in 1..Cardinality(I) |->
        items[CHOOSE i \in I : Cardinality({j \in I : j < i}) = n - 1]]

(***************************** filesystem **********************************)
NoNode == [kind |-> "none", content |-> <<>>, entries |-> <<>>, listable |-> FALSE, target |-> <<>>]
FileNode(c) == [kind |-> "file", content |-> c, entries |-> <<>>, listable |-> FALSE, target |-> <<>>]
DirNode(es, ok) == [kind |-> "dir", content |-> <<>>, entries |-> es, listable |-> ok, target |-> <<>>]
LinkNode(t) == [kind |-> "link", content |-> <<>>, entries |-> <<>>, listable |-> FALSE, target |-> t]

\* the result of resolving a path that names nothing
Missing == <<"ENOENT">>

NodeAt(f, rp) == IF rp \in DOMAIN f THEN f[rp] ELSE NoNode

RECURSIVE Walk(_, _, _, _, _)
\* Resolve the components rest below the real directory cur. followLast
\* says whether a link in the last component is followed (stat) or not
\* (lstat). hops is the number of links the whole resolution may still
\* follow (ELOOP beyond it). Gives the real path, or Missing, and the hops
\* left.
Walk(f, cur, rest, followLast, hops) ==
    IF rest = <<>> THEN [path |-> cur, hops |-> hops]
    ELSE LET cand == Append(cur, Head(rest))
             n == NodeAt(f, cand)
         IN  IF n.kind = "none" THEN [path |-> Missing, hops |-> hops]
             ELSE IF n.kind = "link" /\ (Len(rest) > 1 \/ followLast)
                  THEN IF hops = 0 THEN [path |-> Missing, hops |-> 0]
                       ELSE LET t == Walk(f, <<>>, n.target, TRUE, hops - 1)
                            IN  IF t.path = Missing THEN t
                                ELSE Walk(f, t.path, Tail(rest), followLast, t.hops)
             ELSE IF n.kind = "file" /\ Len(rest) > 1
                  THEN [path |-> Missing, hops |-> hops]
             ELSE Walk(f, cand, Tail(rest), followLast, hops)

\* the paths whose resolution is kept with the filesystem: every path the
\* fixtures below name
LexPaths ==
    {<<"D">>, <<"D", "a">>, <<"D", "b">>, <<"D", "S">>, <<"D", "S", "c">>, <<"X">>}

\* A filesystem: the tree of nodes, and for each path of paths what
\* os.stat (links followed) and os.lstat (the entry itself) find there, and
\* the real path it resolves to.
\* names is determined by tree; it saves resolving a path again at every
\* call. faults are the reads that fail with OSError: <<p>> when p cannot
\* be opened for reading, <<p, q>> when an I/O error occurs while p and q
\* are read together.
MountOver(tree, paths) ==
    [tree |-> tree,
     names |-> [p \in paths |->
                  LET real == Walk(tree, <<>>, p, TRUE, MaxHops).path
                  IN  [st |-> NodeAt(tree, real),
                       real |-> real,
                       lkind |-> NodeAt(tree, Walk(tree, <<>>, p, FALSE, MaxHops).path).kind]],
     faults |-> {}]

WithFaults(f, faults) == [f EXCEPT !.faults = faults]

Mount(tree) == MountOver(tree, LexPaths)

\* os.stat: follows links
stat(f, p) ==
    IF p \in DOMAIN f.names THEN f.names[p].st
    ELSE NodeAt(f.tree, Walk(f.tree, <<>>, p, TRUE, MaxHops).path)
\* the kind of the entry itself, as os.lstat finds it
lstat_kind(f, p) ==
    IF p \in DOMAIN f.names THEN f.names[p].lkind
    ELSE NodeAt(f.tree, Walk(f.tree, <<>>, p, FALSE, MaxHops).path).kind

is_file(f, p) == stat(f, p).kind = "file"
is_dir(f, p) == stat(f, p).kind = "dir"
is_symlink(f, p) == lstat_kind(f, p) = "link"
exists(f, p) == stat(f, p).kind # "none"
st_size(f, p) == Len(stat(f, p).content)
\* what open(p, 'rb') reads
read_bytes(f, p) == stat(f, p).content
\* whether open(p, 'rb') raises OSError
open_raises(f, p) == <<p>> \in f.faults \/ stat(f, p).kind # "file"

RECURSIVE existing_entries(_, _, _)
existing_entries(f, p, names) ==
    IF names = <<>> THEN <<>>
    ELSE (IF lstat_kind(f, Append(p, Head(names))) # "none"
          THEN <<Append(p, Head(names))>> ELSE <<>>)
         \o existing_entries(f, p, Tail(names))

\* Path.iterdir of a listable directory: its entries that exist, in the
\* directory's listing order
iterdir(f, p) == existing_entries(f, p, stat(f, p).entries)

\* whether listing p raises OSError (PermissionError)
iterdir_raises(f, p) == ~stat(f, p).listable

\* f.read(n) at offset pos of a file holding content: the rest of the file
\* for n < 0, at most n bytes otherwise (nothing for n = 0)
f_read(content, pos, n) ==
    IF n < 0 THEN SubSeq(content, pos + 1, Len(content))
    ELSE SubSeq(content, pos + 1, Min(pos + n, Len(content)))

(***************************** configuration *******************************)
\* Optional[int]: None, or one number
None == <<>>
Some(n) == <<n>>

HashAlgorithms == {"md5", "sha1", "sha256", "sha512"}

DefaultChunkSize == 8192

DefaultConfig ==
    [hash_algorithm |-> "sha256", min_size |-> 0, max_size |-> None,
     recursive |-> TRUE, follow_symlinks |-> FALSE, chunk_size |-> DefaultChunkSize]

\* the scanners tried: the default one and each one-parameter change of it
Configs ==
    {[DefaultConfig EXCEPT !.hash_algorithm = a] : a \in HashAlgorithms}
    \cup {[DefaultConfig EXCEPT !.min_size = m] : m \in 0..MaxSize}
    \cup {[DefaultConfig EXCEPT !.max_size = Some(m)] : m \in 0..MaxSize}
    \cup {[DefaultConfig EXCEPT !.recursive = r] : r \in BOOLEAN}
    \cup {[DefaultConfig EXCEPT !.follow_symlinks = s] : s \in BOOLEAN}
    \cup {[DefaultConfig EXCEPT !.chunk_size = n] : n \in (-1)..MaxChunk}

\* what the name `scanner` is bound to when the constructor raised
NoScanner == [hash_algorithm |-> "", min_size |-> 0, max_size |-> None,
              recursive |-> FALSE, follow_symlinks |-> FALSE, chunk_size |-> 0]

\* the hash_algorithm arguments tried: the supported names, and names that
\* are not in the list (another hashlib algorithm, another spelling, nothing)
AlgorithmArgs == HashAlgorithms \cup {"sha224", "SHA256", ""}

\* the argument tuples tried: the defaults with one argument changed
ConstructorArgs ==
    Configs \cup {[DefaultConfig EXCEPT !.hash_algorithm = a] : a \in AlgorithmArgs}

\* mutant: the check of hash_algorithm left out
init_without_validation(args) == [raised |-> FALSE, self |-> args]

\* DuplicateScanner(**args): [raised, self]. The attributes are assigned,
\* then ValueError is raised for a name outside the list, and the caller
\* gets no object.
__init__(args) ==
    IF args.hash_algorithm \notin HashAlgorithms
    THEN [raised |-> TRUE, self |-> NoScanner]
    ELSE [raised |-> FALSE, self |-> args]

(***************************** the scanner *********************************)
\* `if self.max_size and ...`: the bound applies when max_size is truthy
max_size_applies(cfg) == cfg.max_size # None /\ cfg.max_size[1] # 0

\* mutant: the symlink check left out
should_include_symlinks(f, cfg, file_path) ==
    LET st == stat(f, file_path)
        size == Len(st.content)
    IN  IF st.kind # "file" THEN FALSE
        ELSE IF size < cfg.min_size THEN FALSE
        ELSE IF max_size_applies(cfg) /\ size > cfg.max_size[1] THEN FALSE
        ELSE TRUE

_should_include_file(f, cfg, file_path) ==
    LET st == stat(f, file_path)
        size == Len(st.content)
    IN  IF st.kind # "file" THEN FALSE
        ELSE IF is_symlink(f, file_path) /\ ~cfg.follow_symlinks THEN FALSE
        ELSE IF size < cfg.min_size THEN FALSE
        ELSE IF max_size_applies(cfg) /\ size > cfg.max_size[1] THEN FALSE
        ELSE TRUE

RECURSIVE _scan_directory_recursive(_, _, _)
RECURSIVE scan_items_into_links(_, _, _)
\* mutant: every directory entry is descended into, a symlink or not
scan_items_into_links(f, cfg, items) ==
    IF items = <<>> THEN <<>>
    ELSE LET item == Head(items)
             kind == stat(f, item).kind
         IN  (IF kind = "file"
              THEN IF _should_include_file(f, cfg, item) THEN <<item>> ELSE <<>>
              ELSE IF kind = "dir"
                   THEN _scan_directory_recursive(f, cfg, item)
              ELSE <<>>)
             \o scan_items_into_links(f, cfg, Tail(items))

RECURSIVE scan_items(_, _, _)
\* the loop over the items of one directory
scan_items(f, cfg, items) ==
    IF items = <<>> THEN <<>>
    ELSE LET item == Head(items)
             kind == stat(f, item).kind
         IN  (IF kind = "file"
              THEN IF _should_include_file(f, cfg, item) THEN <<item>> ELSE <<>>
              ELSE IF kind = "dir" /\ (cfg.follow_symlinks \/ ~is_symlink(f, item))
                   THEN _scan_directory_recursive(f, cfg, item)
              ELSE <<>>)
             \o scan_items(f, cfg, Tail(items))

\* a directory that cannot be listed contributes nothing (the except
\* clauses around the loop); nothing is raised
_scan_directory_recursive(f, cfg, directory) ==
    LET d == stat(f, directory)
    IN  IF ~d.listable THEN <<>>
        ELSE scan_items(f, cfg, existing_entries(f, directory, d.entries))

RECURSIVE included_files(_, _, _)
included_files(f, cfg, items) ==
    IF items = <<>> THEN <<>>
    ELSE (IF is_file(f, Head(items)) /\ _should_include_file(f, cfg, Head(items))
          THEN <<Head(items)>> ELSE <<>>)
         \o included_files(f, cfg, Tail(items))

\* mutant: the non-recursive branch descends like the recursive one
direct_children_and_below(f, cfg, path) == _scan_directory_recursive(f, cfg, path)

\* the direct children of path that are included files (the list
\* comprehension of the non-recursive branch)
direct_children(f, cfg, path) == included_files(f, cfg, iterdir(f, path))

\* mutant: a root that does not exist raises as well
collect_raises_at_missing(f, cfg, path) ==
    LET st == stat(f, path)
    IN  st.kind = "none" \/ (st.kind = "dir" /\ ~cfg.recursive /\ ~st.listable)

\* whether handling this root raises: only the non-recursive branch lists
\* a directory outside any try block
collect_raises_at(f, cfg, path) ==
    LET st == stat(f, path)
    IN  st.kind = "dir" /\ ~cfg.recursive /\ ~st.listable

collect_one(f, cfg, path) ==
    LET kind == stat(f, path).kind
    IN  IF kind = "file"
        THEN IF _should_include_file(f, cfg, path) THEN <<path>> ELSE <<>>
        ELSE IF kind = "dir"
             THEN IF cfg.recursive THEN _scan_directory_recursive(f, cfg, path)
                  ELSE direct_children(f, cfg, path)
        ELSE <<>>

RECURSIVE collect_loop(_, _, _)
collect_loop(f, cfg, paths) ==
    IF paths = <<>> THEN <<>>
    ELSE collect_one(f, cfg, Head(paths)) \o collect_loop(f, cfg, Tail(paths))

\* [raised, files]: raised when a root's listing raised; otherwise the files
_collect_files(f, cfg, paths) ==
    IF \E i \in 1..Len(paths) : collect_raises_at(f, cfg, paths[i])
    THEN [raised |-> TRUE, files |-> <<>>]
    ELSE [raised |-> FALSE, files |-> collect_loop(f, cfg, paths)]

\* mutant: the item is put in front of the list under its key
dict_prepend(d, key, item) ==
    IF \E n \in 1..Len(d) : d[n].key = key
    THEN LET n == CHOOSE n \in 1..Len(d) : d[n].key = key
         IN  [d EXCEPT ![n].members = <<item>> \o @]
    ELSE Append(d, [key |-> key, members |-> <<item>>])

\* d[key].append(item) on a defaultdict(list) d, kept as its (key, members)
\* pairs in insertion order of the keys
dict_append(d, key, item) ==
    IF \E n \in 1..Len(d) : d[n].key = key
    THEN LET n == CHOOSE n \in 1..Len(d) : d[n].key = key
         IN  [d EXCEPT ![n].members = Append(@, item)]
    ELSE Append(d, [key |-> key, members |-> <<item>>])

RECURSIVE group_by_size_loop(_, _, _)
group_by_size_loop(f, files, size_groups) ==
    IF files = <<>> THEN size_groups
    ELSE group_by_size_loop(f, Tail(files),
                            dict_append(size_groups, st_size(f, Head(files)), Head(files)))

_group_by_size(f, files) == group_by_size_loop(f, files, <<>>)

RECURSIVE hash_loop(_, _, _, _)
\* the read loop: chunks are fed to the digest until a read gives nothing
hash_loop(content, pos, chunk_size, fed) ==
    LET chunk == f_read(content, pos, chunk_size)
    IN  IF chunk = <<>> THEN fed
        ELSE hash_loop(content, pos + Len(chunk), chunk_size, fed \o chunk)

_calculate_file_hash(f, cfg, file_path) ==
    [algorithm |-> cfg.hash_algorithm,
     fed |-> hash_loop(read_bytes(f, file_path), 0, cfg.chunk_size, <<>>)]

RECURSIVE hash_groups_kept_all(_)
\* mutant: the filter `len(group) > 1` dropped, every list is returned
hash_groups_kept_all(hash_groups) ==
    IF hash_groups = <<>> THEN <<>>
    ELSE <<Head(hash_groups).members>> \o hash_groups_kept_all(Tail(hash_groups))

RECURSIVE hash_groups_kept(_)
\* the lists of the hash dictionary with more than one file
hash_groups_kept(hash_groups) ==
    IF hash_groups = <<>> THEN <<>>
    ELSE (IF Len(Head(hash_groups).members) > 1
          THEN <<Head(hash_groups).members>> ELSE <<>>)
         \o hash_groups_kept(Tail(hash_groups))

\* _calculate_file_hash raises OSError when the file cannot be read
_calculate_file_hash_raises(f, file_path) == open_raises(f, file_path)

RECURSIVE hash_groups_loop_hashes_nothing(_, _, _, _)
\* mutant: a file that cannot be read is filed under the digest of no bytes
hash_groups_loop_hashes_nothing(f, cfg, files, hash_groups) ==
    IF files = <<>> THEN hash_groups
    ELSE hash_groups_loop_hashes_nothing(f, cfg, Tail(files),
             dict_append(hash_groups,
                         IF _calculate_file_hash_raises(f, Head(files))
                         THEN [algorithm |-> cfg.hash_algorithm, fed |-> <<>>]
                         ELSE _calculate_file_hash(f, cfg, Head(files)),
                         Head(files)))

RECURSIVE hash_groups_loop(_, _, _, _)
\* the loop over the files: one that cannot be hashed is skipped (except
\* OSError: continue)
hash_groups_loop(f, cfg, files, hash_groups) ==
    IF files = <<>> THEN hash_groups
    ELSE IF _calculate_file_hash_raises(f, Head(files))
         THEN hash_groups_loop(f, cfg, Tail(files), hash_groups)
    ELSE hash_groups_loop(f, cfg, Tail(files),
             dict_append(hash_groups, _calculate_file_hash(f, cfg, Head(files)), Head(files)))

_find_duplicates_hash(f, cfg, files) ==
    hash_groups_kept(hash_groups_loop(f, cfg, files, <<>>))

\* mutant: the verdict after the first chunk of each file
compare_first_chunk(content1, content2, pos, chunk_size) ==
    f_read(content1, pos, chunk_size) = f_read(content2, pos, chunk_size)

RECURSIVE compare_loop(_, _, _, _)
\* both files are read chunk by chunk from the same offset
compare_loop(content1, content2, pos, chunk_size) ==
    LET chunk1 == f_read(content1, pos, chunk_size)
        chunk2 == f_read(content2, pos, chunk_size)
    IN  IF chunk1 # chunk2 THEN FALSE
        ELSE IF chunk1 = <<>> THEN TRUE
        ELSE compare_loop(content1, content2, pos + Len(chunk1), chunk_size)

_files_are_identical(f, cfg, file1, file2) ==
    compare_loop(read_bytes(f, file1), read_bytes(f, file2), 0, cfg.chunk_size)

\* _files_are_identical raises OSError when either file cannot be opened or
\* a read of the pair fails
_files_are_identical_raises(f, file1, file2) ==
    open_raises(f, file1) \/ open_raises(f, file2) \/ <<file1, file2>> \in f.faults

RECURSIVE byte_inner_stops_at_error(_, _, _, _, _, _)
\* mutant: the try block around the loop, so an error ends the comparisons
\* with this reference
byte_inner_stops_at_error(f, cfg, files, j, current_group, processed_files) ==
    IF j > Len(files) THEN [group |-> current_group, processed |-> processed_files]
    ELSE IF files[j] \in processed_files
         THEN byte_inner_stops_at_error(f, cfg, files, j + 1, current_group, processed_files)
    ELSE IF _files_are_identical_raises(f, current_group[1], files[j])
         THEN [group |-> current_group, processed |-> processed_files]
    ELSE IF _files_are_identical(f, cfg, current_group[1], files[j])
         THEN byte_inner_stops_at_error(f, cfg, files, j + 1, Append(current_group, files[j]),
                                        processed_files \cup {files[j]})
    ELSE byte_inner_stops_at_error(f, cfg, files, j + 1, current_group, processed_files)

RECURSIVE byte_inner(_, _, _, _, _, _)
\* the loop over j: [group, processed] after the candidates files[j..]; a
\* comparison that raises leaves the candidate as it was (except OSError:
\* continue)
byte_inner(f, cfg, files, j, current_group, processed_files) ==
    IF j > Len(files) THEN [group |-> current_group, processed |-> processed_files]
    ELSE IF files[j] \in processed_files
         THEN byte_inner(f, cfg, files, j + 1, current_group, processed_files)
    ELSE IF _files_are_identical_raises(f, current_group[1], files[j])
         THEN byte_inner(f, cfg, files, j + 1, current_group, processed_files)
    ELSE IF _files_are_identical(f, cfg, current_group[1], files[j])
         THEN byte_inner(f, cfg, files, j + 1, Append(current_group, files[j]),
                         processed_files \cup {files[j]})
    ELSE byte_inner(f, cfg, files, j + 1, current_group, processed_files)

RECURSIVE byte_outer(_, _, _, _, _, _)
\* the loop over i: the groups found from the reference files[i..]
byte_outer(f, cfg, files, i, processed_files, duplicate_groups) ==
    IF i > Len(files) THEN duplicate_groups
    ELSE IF files[i] \in processed_files
         THEN byte_outer(f, cfg, files, i + 1, processed_files, duplicate_groups)
    ELSE LET r == byte_inner(f, cfg, files, i + 1, <<files[i]>>,
                             processed_files \cup {files[i]})
         IN  byte_outer(f, cfg, files, i + 1, r.processed,
                        IF Len(r.group) > 1 THEN Append(duplicate_groups, r.group)
                        ELSE duplicate_groups)

_find_duplicates_byte_comparison(f, cfg, files) ==
    IF Len(files) < 2 THEN <<>>
    ELSE byte_outer(f, cfg, files, 1, {}, <<>>)

\* the groups of one size group: none for fewer than two files
groups_of_size_group(f, cfg, file_list, use_byte_comparison) ==
    IF Len(file_list) < 2 THEN <<>>
    ELSE IF use_byte_comparison THEN _find_duplicates_byte_comparison(f, cfg, file_list)
    ELSE _find_duplicates_hash(f, cfg, file_list)

RECURSIVE scan_loop(_, _, _, _)
\* the loop over the size groups, in the dictionary's order
scan_loop(f, cfg, size_groups, use_byte_comparison) ==
    IF size_groups = <<>> THEN <<>>
    ELSE groups_of_size_group(f, cfg, Head(size_groups).members, use_byte_comparison)
         \o scan_loop(f, cfg, Tail(size_groups), use_byte_comparison)

\* [raised, files, groups]: whether scan raised, its local `files`, and the
\* list it returns
scan(f, cfg, paths, use_byte_comparison) ==
    LET got == _collect_files(f, cfg, paths)
    IN  IF got.raised THEN [raised |-> TRUE, files |-> <<>>, groups |-> <<>>]
        ELSE IF got.files = <<>>
             THEN [raised |-> FALSE, files |-> <<>>, groups |-> <<>>]
        ELSE [raised |-> FALSE, files |-> got.files,
              groups |-> scan_loop(f, cfg, _group_by_size(f, got.files),
                                   use_byte_comparison)]

RECURSIVE byte_inner_opened(_, _, _, _, _, _)
\* the files that the loop over j passes to _files_are_identical
byte_inner_opened(f, cfg, files, j, current_group, processed_files) ==
    IF j > Len(files) THEN {}
    ELSE IF files[j] \in processed_files
         THEN byte_inner_opened(f, cfg, files, j + 1, current_group, processed_files)
    ELSE {current_group[1], files[j]} \cup
         (IF _files_are_identical_raises(f, current_group[1], files[j])
          THEN byte_inner_opened(f, cfg, files, j + 1, current_group, processed_files)
          ELSE IF _files_are_identical(f, cfg, current_group[1], files[j])
               THEN byte_inner_opened(f, cfg, files, j + 1, Append(current_group, files[j]),
                                      processed_files \cup {files[j]})
          ELSE byte_inner_opened(f, cfg, files, j + 1, current_group, processed_files))

RECURSIVE byte_outer_opened(_, _, _, _, _)
\* the files that _find_duplicates_byte_comparison compares from the
\* reference files[i..] on
byte_outer_opened(f, cfg, files, i, processed_files) ==
    IF i > Len(files) THEN {}
    ELSE IF files[i] \in processed_files
         THEN byte_outer_opened(f, cfg, files, i + 1, processed_files)
    ELSE byte_inner_opened(f, cfg, files, i + 1, <<files[i]>>,
                           processed_files \cup {files[i]})
         \cup byte_outer_opened(f, cfg, files, i + 1,
                                byte_inner(f, cfg, files, i + 1, <<files[i]>>,
                                           processed_files \cup {files[i]}).processed)

\* the files a strategy hashes or byte-compares in one list: the hash
\* strategy calls _calculate_file_hash on each
opened_by_strategy(f, cfg, file_list, use_byte_comparison) ==
    IF use_byte_comparison
    THEN IF Len(file_list) < 2 THEN {} ELSE byte_outer_opened(f, cfg, file_list, 1, {})
    ELSE Range(file_list)

\* mutant: every size group is handed to the strategy
opened_of_any_size_group(f, cfg, file_list, use_byte_comparison) ==
    opened_by_strategy(f, cfg, file_list, use_byte_comparison)

\* `if len(file_list) < 2: continue`: a size group of one file is handed
\* to neither strategy
opened_of_size_group(f, cfg, file_list, use_byte_comparison) ==
    IF Len(file_list) < 2 THEN {}
    ELSE opened_by_strategy(f, cfg, file_list, use_byte_comparison)

RECURSIVE opened_by_scan_loop(_, _, _, _)
opened_by_scan_loop(f, cfg, size_groups, use_byte_comparison) ==
    IF size_groups = <<>> THEN {}
    ELSE opened_of_size_group(f, cfg, Head(size_groups).members, use_byte_comparison)
         \cup opened_by_scan_loop(f, cfg, Tail(size_groups), use_byte_comparison)

\* the files whose content scan reads
opened_by_scan(f, cfg, paths, use_byte_comparison) ==
    LET got == _collect_files(f, cfg, paths)
    IN  IF got.raised \/ got.files = <<>> THEN {}
        ELSE opened_by_scan_loop(f, cfg, _group_by_size(f, got.files), use_byte_comparison)

(***************************** purge ***************************************)
\* Path.unlink removes the entry itself (a link, not its target). It raises
\* OSError when the entry is missing or a directory, and for the paths in
\* fails (a deletion the filesystem refuses: permission, I/O error).
unlink_raises(f, file_path, fails) ==
    file_path \in fails \/ lstat_kind(f, file_path) \notin {"file", "link"}

unlink(f, file_path) ==
    WithFaults(
        MountOver([f.tree EXCEPT ![Walk(f.tree, <<>>, file_path, FALSE, MaxHops).path] = NoNode],
                  DOMAIN f.names),
        f.faults)

\* mutant: dry_run is not looked at, the file is unlinked all the same
purge_one_unlinks_on_dry_run(st, file_path, dry, fails) ==
    IF unlink_raises(st.fs, file_path, fails)
    THEN [st EXCEPT !.log = Append(@, [path |-> file_path, outcome |-> "error"])]
    ELSE [fs |-> unlink(st.fs, file_path),
          removed_count |-> st.removed_count + 1,
          log |-> Append(st.log, [path |-> file_path,
                                  outcome |-> IF dry THEN "would_remove" ELSE "removed"])]

\* mutant: removed_count is incremented for a dry-run line too
purge_one_counts_dry_run(st, file_path, dry, fails) ==
    IF dry
    THEN [st EXCEPT !.removed_count = @ + 1,
                    !.log = Append(@, [path |-> file_path, outcome |-> "would_remove"])]
    ELSE IF unlink_raises(st.fs, file_path, fails)
         THEN [st EXCEPT !.log = Append(@, [path |-> file_path, outcome |-> "error"])]
    ELSE [fs |-> unlink(st.fs, file_path),
          removed_count |-> st.removed_count + 1,
          log |-> Append(st.log, [path |-> file_path, outcome |-> "removed"])]

\* one pass of the inner loop body: st is [fs, removed_count, log]; log
\* holds one entry per line printed
purge_one(st, file_path, dry, fails) ==
    IF dry
    THEN [st EXCEPT !.log = Append(@, [path |-> file_path, outcome |-> "would_remove"])]
    ELSE IF unlink_raises(st.fs, file_path, fails)
         THEN [st EXCEPT !.log = Append(@, [path |-> file_path, outcome |-> "error"])]
    ELSE [fs |-> unlink(st.fs, file_path),
          removed_count |-> st.removed_count + 1,
          log |-> Append(st.log, [path |-> file_path, outcome |-> "removed"])]

RECURSIVE purge_files_abort_on_error(_, _, _, _)
\* mutant: the try block around the loop instead of inside it, so the first
\* failing deletion ends the group
purge_files_abort_on_error(st, files_to_remove, dry, fails) ==
    IF files_to_remove = <<>> THEN st
    ELSE IF ~dry /\ unlink_raises(st.fs, Head(files_to_remove), fails)
         THEN [st EXCEPT !.log = Append(@, [path |-> Head(files_to_remove),
                                            outcome |-> "error"])]
    ELSE purge_files_abort_on_error(
             [fs |-> IF dry THEN st.fs ELSE unlink(st.fs, Head(files_to_remove)),
              removed_count |-> IF dry THEN st.removed_count ELSE st.removed_count + 1,
              log |-> Append(st.log, [path |-> Head(files_to_remove),
                                      outcome |-> IF dry THEN "would_remove" ELSE "removed"])],
             Tail(files_to_remove), dry, fails)

RECURSIVE purge_files(_, _, _, _)
\* the loop over files_to_remove
purge_files(st, files_to_remove, dry, fails) ==
    IF files_to_remove = <<>> THEN st
    ELSE purge_files(purge_one(st, Head(files_to_remove), dry, fails),
                     Tail(files_to_remove), dry, fails)

\* group[1:]
files_to_remove_of(group) == IF group = <<>> THEN <<>> ELSE Tail(group)

RECURSIVE purge_groups(_, _, _, _)
purge_groups(st, duplicate_groups, dry, fails) ==
    IF duplicate_groups = <<>> THEN st
    ELSE purge_groups(purge_files(st, files_to_remove_of(Head(duplicate_groups)), dry, fails),
                      Tail(duplicate_groups), dry, fails)

\* [fs, removed_count, log] after purge_duplicates(duplicate_groups, dry)
purge_duplicates(f, duplicate_groups, dry, fails) ==
    purge_groups([fs |-> f, removed_count |-> 0, log |-> <<>>], duplicate_groups, dry, fails)

(***************************** core.py: delete_duplicates ******************)
\* len(f.name): the number of characters of the last component
name_len(file_path) == Len(file_path[Len(file_path)])

\* the number of characters of the whole path, separators included
path_len(file_path) ==
    LET RECURSIVE sum(_)
        sum(k) == IF k = 0 THEN 0 ELSE Len(file_path[k]) + sum(k - 1)
    IN  sum(Len(file_path)) + (Len(file_path) - 1)

\* mutant: the key is the length of the whole path
shortest_path_file(group) ==
    group[CHOOSE i \in 1..Len(group) :
            \A j \in 1..Len(group) :
                path_len(group[i]) < path_len(group[j])
                \/ (path_len(group[i]) = path_len(group[j]) /\ i <= j)]

\* min(group, key=lambda f: len(f.name)): the first member whose key is
\* the smallest
shortest_name_file(group) ==
    group[CHOOSE i \in 1..Len(group) :
            \A j \in 1..Len(group) :
                name_len(group[i]) < name_len(group[j])
                \/ (name_len(group[i]) = name_len(group[j]) /\ i <= j)]

\* [f for f in group if f != shortest_name_file]
files_to_delete_of(group) ==
    LET keep == shortest_name_file(group)
    IN  SelectSeq(group, LAMBDA file_path : file_path # keep)

\* one pass of either loop over files_to_delete; n is the number of the
\* group, st is [fs, log]
delete_one(st, n, file_to_delete, dry, fails) ==
    IF dry
    THEN [st EXCEPT !.log = Append(@, [path |-> file_to_delete, outcome |-> "would_delete",
                                       group |-> n])]
    ELSE IF unlink_raises(st.fs, file_to_delete, fails)
         THEN [st EXCEPT !.log = Append(@, [path |-> file_to_delete, outcome |-> "error",
                                            group |-> n])]
    ELSE [fs |-> unlink(st.fs, file_to_delete),
          log |-> Append(st.log, [path |-> file_to_delete, outcome |-> "deleted",
                                  group |-> n])]

RECURSIVE delete_files(_, _, _, _, _)
delete_files(st, n, files_to_delete, dry, fails) ==
    IF files_to_delete = <<>> THEN st
    ELSE delete_files(delete_one(st, n, Head(files_to_delete), dry, fails),
                      n, Tail(files_to_delete), dry, fails)

\* the body of the loop over the groups: a group of one or none is passed
\* over; otherwise the "Keep" / "Keeping" line, then the other files
delete_group(st, n, group, dry, fails) ==
    IF Len(group) <= 1 THEN st
    ELSE delete_files(
             [st EXCEPT !.log = Append(@, [path |-> shortest_name_file(group),
                                           outcome |-> "keep", group |-> n])],
             n, files_to_delete_of(group), dry, fails)

RECURSIVE delete_groups(_, _, _, _, _)
delete_groups(st, n, duplicate_groups, dry, fails) ==
    IF n > Len(duplicate_groups) THEN st
    ELSE delete_groups(delete_group(st, n, duplicate_groups[n], dry, fails),
                       n + 1, duplicate_groups, dry, fails)

\* [fs, log] after delete_duplicates(duplicate_groups, dry_run)
delete_duplicates(f, duplicate_groups, dry, fails) ==
    delete_groups([fs |-> f, log |-> <<>>], 1, duplicate_groups, dry, fails)

(***************************** _collect_files, step by step ****************)
\* nothing is being collected. idx is the number of roots taken up so far;
\* pending are the directory entries not yet visited, the next one first;
\* listed has one entry [root, dir] for every directory listing made: the
\* number of the root and the real path of the directory
NoWalk == [roots |-> <<>>, idx |-> 0, pending |-> <<>>, listed |-> <<>>]

\* the real path of the directory that p names
realpath(f, p) ==
    IF p \in DOMAIN f.names THEN f.names[p].real
    ELSE Walk(f.tree, <<>>, p, TRUE, MaxHops).path

\* mutant: a directory entry is descended into without looking at whether
\* it is a symlink
descends_into_any(f, cfg, item) == stat(f, item).kind = "dir"

\* `elif item.is_dir(): if self.follow_symlinks or not item.is_symlink()`
descends_into(f, cfg, item) ==
    stat(f, item).kind = "dir" /\ (cfg.follow_symlinks \/ ~is_symlink(f, item))

(***************************** utils.py: format_file_size ******************)
units == <<"B", "KB", "MB", "GB", "TB", "PB">>

RECURSIVE Pow(_, _)
Pow(b, e) == IF e = 0 THEN 1 ELSE b * Pow(b, e - 1)

RECURSIVE floor_log_1024(_)
\* int(math.floor(math.log(size_bytes, 1024))) for size_bytes >= 1. The
\* floating-point logarithm has this floor for every size the model draws.
floor_log_1024(size_bytes) ==
    IF size_bytes < 1024 THEN 0 ELSE 1 + floor_log_1024(size_bytes \div 1024)

RECURSIVE scaled(_, _, _)
\* n * s / 1024^k for n < 1024^k, without leaving 32 bits: the floor q, and
\* where the fractional part lies with respect to one half
scaled(n, k, s) ==
    IF k = 0 THEN [q |-> n * s, rest |-> "zero"]
    ELSE LET below == Pow(1024, k - 1)
             sub == scaled(n % below, k - 1, s)
             a == (n \div below) * s + sub.q
             r == a % 1024
         IN  [q |-> a \div 1024,
              rest |-> IF r = 0 /\ sub.rest = "zero" THEN "zero"
                       ELSE IF r < 512 THEN "below"
                       ELSE IF r = 512 /\ sub.rest = "zero" THEN "half"
                       ELSE "above"]

\* f"{size_bytes / 1024 ** unit_index:.<decimals>f}": the quotient is exact
\* in a float, and the format rounds it to nearest, ties to even
fixed(size_bytes, unit_index, decimals) ==
    LET den == Pow(1024, unit_index)
        ten == Pow(10, decimals)
        sc == scaled(size_bytes % den, unit_index, ten)
        trunc == (size_bytes \div den) * ten + sc.q
        digits == IF sc.rest = "above" \/ (sc.rest = "half" /\ trunc % 2 = 1)
                  THEN trunc + 1 ELSE trunc
        frac == digits % ten
    IN  IF decimals = 0 THEN ToString(digits)
        ELSE ToString(digits \div ten) \o "."
             \o (IF decimals = 2 /\ frac < 10 THEN "0" ELSE "") \o ToString(frac)

format_file_size(size_bytes) ==
    IF size_bytes = 0 THEN "0 B"
    ELSE LET unit_index == Min(floor_log_1024(size_bytes), Len(units) - 1)
             whole == size_bytes \div Pow(1024, unit_index)
         IN  IF unit_index = 0
             THEN fixed(size_bytes, unit_index, 0) \o " " \o units[unit_index + 1]
             ELSE IF whole < 10
                  THEN fixed(size_bytes, unit_index, 2) \o " " \o units[unit_index + 1]
             ELSE IF whole < 100
                  THEN fixed(size_bytes, unit_index, 1) \o " " \o units[unit_index + 1]
             ELSE fixed(size_bytes, unit_index, 0) \o " " \o units[unit_index + 1]

(***************************** cli.py: main ********************************)
\* the exit status of a process that has not exited
Running == -1

NoArgs == [paths |-> <<>>, all_bytes |-> FALSE, purge |-> FALSE, dry_run |-> FALSE,
           output |-> FALSE, recursive |-> TRUE]

\* no command line run. scan_left and scan_acc are locals of the running
\* scan: the size groups still to handle and its duplicate_groups so far.
NoCli == [args |-> NoArgs, scan_left |-> <<>>, scan_acc |-> <<>>,
          stdout |-> <<>>, outfile |-> <<>>, stderr |-> <<>>,
          exit_code |-> Running, interrupted_at |-> ""]

\* mutant: a path that does not exist is warned about and kept
validate_paths_keeps_missing(f, paths) ==
    [valid_paths |-> paths,
     warnings |-> [k \in 1..Len(SelectSeq(paths, LAMBDA path : ~exists(f, path))) |->
                     [kind |-> "warning_missing",
                      path |-> SelectSeq(paths, LAMBDA path : ~exists(f, path))[k]]]]

\* validate_paths: the paths that exist, a warning for each of the others
validate_paths(f, paths) ==
    [valid_paths |-> SelectSeq(paths, LAMBDA path : exists(f, path)),
     warnings |-> [k \in 1..Len(SelectSeq(paths, LAMBDA path : ~exists(f, path))) |->
                     [kind |-> "warning_missing",
                      path |-> SelectSeq(paths, LAMBDA path : ~exists(f, path))[k]]]]

RECURSIVE member_lines(_, _, _)
\* the lines "  j. path [KEEP]" / "[DUPLICATE]" of group number n, from its
\* member j on
member_lines(n, group, j) ==
    IF j > Len(group) THEN <<>>
    ELSE <<[kind |-> "member", group |-> n, index |-> j, path |-> group[j],
            marker |-> IF j = 1 THEN "KEEP" ELSE "DUPLICATE"]>>
         \o member_lines(n, group, j + 1)

RECURSIVE group_lines(_, _)
group_lines(duplicate_groups, n) ==
    IF n > Len(duplicate_groups) THEN <<>>
    ELSE <<[kind |-> "group", group |-> n, files |-> Len(duplicate_groups[n])]>>
         \o member_lines(n, duplicate_groups[n], 1)
         \o group_lines(duplicate_groups, n + 1)

\* output_results: what is written to the output (sizes left out)
output_results(duplicate_groups) ==
    IF duplicate_groups = <<>> THEN <<[kind |-> "no_duplicates"]>>
    ELSE <<[kind |-> "found", groups |-> Len(duplicate_groups)]>>
         \o group_lines(duplicate_groups, 1)

\* mutant: the handler shows what the scan had found so far
handle_keyboard_interrupt_lists_partial(c, at) ==
    [c EXCEPT !.stdout = @ \o output_results(c.scan_acc),
              !.stderr = Append(@, [kind |-> "cancelled"]),
              !.exit_code = 1,
              !.interrupted_at = at]

\* except KeyboardInterrupt: the message on stderr, then sys.exit(1); at is
\* where main was
handle_keyboard_interrupt(c, at) ==
    [c EXCEPT !.stderr = Append(@, [kind |-> "cancelled"]),
              !.exit_code = 1,
              !.interrupted_at = at]

(***************************** fixtures ************************************)
\* D holds the files a and b and the directory S, listed in the order
\* a, S, b; S holds the file c
D == <<"D">>
Da == <<"D", "a">>
Db == <<"D", "b">>
DS == <<"D", "S">>
DSc == <<"D", "S", "c">>

Dirs == {D, DS}
Files == {Da, Db, DSc}

MkFS(ca, cc, cb, unlistable) ==
    Mount([p \in Dirs \cup Files |->
        CASE p = D -> DirNode(<<"a", "S", "b">>, D \notin unlistable)
          [] p = DS -> DirNode(<<"c">>, DS \notin unlistable)
          [] p = Da -> FileNode(ca)
          [] p = Db -> FileNode(cb)
          [] p = DSc -> FileNode(cc)])

\* every directory can be listed
PlainFS == {MkFS(ca, cc, cb, {}) : ca \in Contents, cc \in Contents, cb \in Contents}
\* some directory cannot be listed
DeniedFS ==
    {MkFS(ca, cc, cb, u) : ca \in Contents, cc \in Contents, cb \in Contents,
                           u \in (SUBSET Dirs) \ {{}}}

\* D holds the file a, the link T to the directory E outside D, and the
\* directory S, listed in that order; S holds the files c and d and between
\* them the link m to target; E holds the file e
DSd == <<"D", "S", "d">>
DSm == <<"D", "S", "m">>
DT == <<"D", "T">>
DTe == <<"D", "T", "e">>
E == <<"E">>
Ee == <<"E", "e">>
Z == <<"Z">>

LinkLexPaths == {D, Da, DS, DSc, DSd, DSm, DT, DTe, E, Ee}

MkLinkFS(ca, cc, cd, ce, target) ==
    MountOver([p \in {D, Da, DS, DSc, DSd, DSm, DT, E, Ee} |->
        CASE p = D -> DirNode(<<"a", "T", "S">>, TRUE)
          [] p = Da -> FileNode(ca)
          [] p = DS -> DirNode(<<"c", "m", "d">>, TRUE)
          [] p = DSc -> FileNode(cc)
          [] p = DSd -> FileNode(cd)
          [] p = DSm -> LinkNode(target)
          [] p = DT -> LinkNode(E)
          [] p = E -> DirNode(<<"e">>, TRUE)
          [] p = Ee -> FileNode(ce)], LinkLexPaths)

\* one-byte files; the link m points to a file below a root, to a file
\* outside it, or to nothing
LinkContents == [1..1 -> ByteValues]
LinkFS ==
    {MkLinkFS(ca, cc, cd, ce, t) : ca \in LinkContents, cc \in LinkContents,
                                   cd \in LinkContents, ce \in LinkContents,
                                   t \in {Da, Ee, Z}}

\* roots: a directory, a subdirectory, a link to a file, a link to a
\* directory
LinkRootPaths == {D, DS, DSm, DT}
LinkRootLists == SeqsUpTo(LinkRootPaths, MaxRoots) \ {<<>>}

\* recursive or not, following links or not
LinkConfigs ==
    {[DefaultConfig EXCEPT !.recursive = r, !.follow_symlinks = s] :
        r \in BOOLEAN, s \in BOOLEAN}

\* the reads that may fail: opening a file, reading a pair (reference,
\* candidate) in traversal order
Faults == {<<p>> : p \in Files} \cup {<<Da, DSc>>, <<Da, Db>>, <<DSc, Db>>}

\* empty and one-byte files, with any set of failing reads
IOContents == {<<>>, <<0>>, <<1>>}
FaultyFS ==
    {WithFaults(MkFS(ca, cc, cb, {}), faults) :
        ca \in IOContents, cc \in IOContents, cb \in IOContents,
        faults \in (SUBSET Faults) \ {{}}}

\* D holds the file a, the link U back to D, and the directory S; S holds
\* the file c and the link V to target (D, or S itself)
DU == <<"D", "U">>
DSV == <<"D", "S", "V">>

CycleTree(ca, cc, target) ==
    [p \in {D, Da, DU, DS, DSc, DSV} |->
        CASE p = D -> DirNode(<<"a", "U", "S">>, TRUE)
          [] p = Da -> FileNode(ca)
          [] p = DU -> LinkNode(D)
          [] p = DS -> DirNode(<<"c", "V">>, TRUE)
          [] p = DSc -> FileNode(cc)
          [] p = DSV -> LinkNode(target)]

RECURSIVE PathsBelow(_, _)
\* p and every path below it that names something: through directory
\* links too, as far as a path can be resolved
PathsBelow(tree, p) ==
    LET node == NodeAt(tree, Walk(tree, <<>>, p, TRUE, MaxHops).path)
    IN  {p} \cup UNION {PathsBelow(tree, Append(p, node.entries[k])) :
                            k \in 1..Len(node.entries)}

MkCycleFS(ca, cc, target) ==
    MountOver(CycleTree(ca, cc, target), PathsBelow(CycleTree(ca, cc, target), D))

CycleFS == {MkCycleFS(ca, cc, t) : ca \in LinkContents, cc \in LinkContents, t \in {D, DS}}

\* roots: the directory, its subdirectory, a link back to the directory
CycleRootLists == SeqsUpTo({D, DS, DU}, MaxRoots) \ {<<>>}

\* D holds the files a and b, of up to MaxFileLen bytes each
MkPairFS(ca, cb) ==
    Mount([p \in {D, Da, Db} |->
        CASE p = D -> DirNode(<<"a", "b">>, TRUE)
          [] p = Da -> FileNode(ca)
          [] p = Db -> FileNode(cb)])

PairContents == SeqsUpTo(ByteValues, MaxFileLen)
PairFS == {MkPairFS(ca, cb) : ca \in PairContents, cb \in PairContents}
\* chunk_size from 1 up
PairConfigs == {[DefaultConfig EXCEPT !.chunk_size = n] : n \in 1..MaxChunkSize}

\* a directory, a file inside it, and a path that does not exist
X == <<"X">>
RootPaths == {D, Da, X}
RootLists == SeqsUpTo(RootPaths, MaxRoots) \ {<<>>}

\* the members of the groups, as a set
PathsIn(gs) == UNION {Range(gs[i]) : i \in 1..Len(gs)}

\* flat cut into groups after the positions in cuts
Split(flat, cuts) ==
    LET ends == cuts \cup {Len(flat)}
        start(e) == IF \E c \in ends : c < e
                    THEN 1 + CHOOSE c \in ends : c < e /\ \A x \in ends : x < e => x <= c
                    ELSE 1
        bounds == AtIndices([i \in 1..Len(flat) |-> i], ends)
    IN  [n \in 1..Len(bounds) |-> SubSeq(flat, start(bounds[n]), bounds[n])]

\* every list of non-empty groups over the files F with at most MaxMembers
\* members in all
GroupListsOver(F) ==
    {<<>>} \cup
    UNION {{Split(flat, cuts) : flat \in [1..n -> F], cuts \in SUBSET (1..(n - 1))} :
           n \in 1..MaxMembers}

GroupLists == GroupListsOver(Files)

\* files whose names differ in length: ab has the longest name and the
\* shortest path, c and d have names of one character
Dab == <<"D", "ab">>
Dd == <<"D", "d">>
NameFiles == {Dab, DSc, Dd}

MkNameFS(c) ==
    MountOver([p \in Dirs \cup NameFiles |->
        CASE p = D -> DirNode(<<"ab", "S", "d">>, TRUE)
          [] p = DS -> DirNode(<<"c">>, TRUE)
          [] OTHER -> FileNode(c)], Dirs \cup NameFiles)

(***************************** state machine *******************************)
\* returned: what a direct call of _files_are_identical gave back
NoCall == [args |-> NoScanner, paths |-> <<>>, use_byte_comparison |-> FALSE,
           returned |-> None]

\* a scanner constructed with config over the filesystem fs; nothing called
InitWith(FSs, Cfgs) ==
    /\ fs \in FSs
    /\ config \in Cfgs
    /\ pc = "ready"
    /\ call = NoCall
    /\ collected = <<>>
    /\ groups = <<>>
    /\ dry_run = FALSE
    /\ removed_count = 0
    /\ log = <<>>
    /\ cli = NoCli
    /\ walk = NoWalk

Init == InitWith(PlainFS, Configs)

\* scanner.scan(paths, use_byte_comparison)
Scan(paths, use_byte_comparison) ==
    /\ pc = "ready"
    /\ LET r == scan(fs, config, paths, use_byte_comparison)
       IN  /\ collected' = r.files
           /\ groups' = r.groups
           /\ pc' = IF r.raised THEN "raised" ELSE "scanned"
    /\ call' = [call EXCEPT !.paths = paths, !.use_byte_comparison = use_byte_comparison]
    /\ UNCHANGED <<fs, config, dry_run, removed_count, log, cli, walk>>

\* scanner.purge_duplicates(groups, dry_run) on the groups at hand
PurgeDuplicates(dry, fails) ==
    /\ pc \in {"scanned", "given"}
    /\ LET r == purge_duplicates(fs, groups, dry, fails)
       IN  /\ fs' = r.fs
           /\ removed_count' = r.removed_count
           /\ log' = r.log
    /\ dry_run' = dry
    /\ pc' = "purged"
    /\ UNCHANGED <<config, call, collected, groups, cli, walk>>

\* scanner._files_are_identical(file1, file2)
FilesAreIdentical(file1, file2) ==
    /\ pc = "ready"
    /\ IF _files_are_identical_raises(fs, file1, file2)
       THEN /\ pc' = "raised"
            /\ call' = [call EXCEPT !.paths = <<file1, file2>>]
       ELSE /\ pc' = "compared"
            /\ call' = [call EXCEPT !.paths = <<file1, file2>>,
                                    !.returned = Some(_files_are_identical(fs, config,
                                                                           file1, file2))]
    /\ UNCHANGED <<fs, config, collected, groups, dry_run, removed_count, log, cli, walk>>

InitCompare == InitWith(PairFS, PairConfigs)

NextCompare == \E file1 \in {Da, Db}, file2 \in {Da, Db} : FilesAreIdentical(file1, file2)

\* one comparison of two readable files
SpecCompare == InitCompare /\ [][NextCompare]_vars

\* the sizes formatted: bytes, halves of a KB and of a MB, one GB, and
\* sizes next to where the number of decimals changes
FormatSizes ==
    (0..MaxHalves)
    \cup {h * 512 : h \in 1..MaxHalves}
    \cup {h * 524288 : h \in 1..MaxHalves}
    \cup {1023, 1025, 1152, 2047, 10239, 102348, 102399, 104857, 1048575, 1073741824}

\* format_file_size(size_bytes)
FormatFileSize(size_bytes) ==
    /\ pc = "ready"
    /\ call' = [call EXCEPT !.args = [size_bytes |-> size_bytes],
                            !.returned = Some(format_file_size(size_bytes))]
    /\ pc' = "formatted"
    /\ UNCHANGED <<fs, config, collected, groups, dry_run, removed_count, log, cli, walk>>

InitFormat == InitWith({MkPairFS(<<>>, <<>>)}, {DefaultConfig})

NextFormat == \E size_bytes \in FormatSizes : FormatFileSize(size_bytes)

\* one call of format_file_size
SpecFormat == InitFormat /\ [][NextFormat]_vars

\* a scan, then, as the command line does when the result is not empty, a
\* purge of the result; the filesystem refuses no deletion
Next ==
    \/ \E paths \in RootLists, use_byte_comparison \in BOOLEAN :
          Scan(paths, use_byte_comparison)
    \/ /\ groups # <<>>
       /\ \E dry \in BOOLEAN : PurgeDuplicates(dry, {})

Spec == Init /\ [][Next]_vars

\* scanner = DuplicateScanner(**args)
Construct(args) ==
    /\ pc = "unbuilt"
    /\ LET r == __init__(args)
       IN  /\ config' = r.self
           /\ pc' = IF r.raised THEN "init_raised" ELSE "ready"
    /\ call' = [call EXCEPT !.args = args]
    /\ UNCHANGED <<fs, collected, groups, dry_run, removed_count, log, cli, walk>>

\* no scanner yet
InitNew ==
    /\ fs \in {MkFS(c, c, c, {}) : c \in Contents}
    /\ config = NoScanner
    /\ pc = "unbuilt"
    /\ call = NoCall
    /\ collected = <<>>
    /\ groups = <<>>
    /\ dry_run = FALSE
    /\ removed_count = 0
    /\ log = <<>>
    /\ cli = NoCli
    /\ walk = NoWalk

NextNew ==
    \/ \E args \in ConstructorArgs : Construct(args)
    \/ Next

\* construction, then use of the scanner
SpecNew == InitNew /\ [][NextNew]_vars

\* scanning trees with symbolic links
InitLink == InitWith(LinkFS, LinkConfigs)

NextLink ==
    \E paths \in LinkRootLists, use_byte_comparison \in BOOLEAN :
        Scan(paths, use_byte_comparison)

SpecLink == InitLink /\ [][NextLink]_vars

\* a scan of a tree with links, then a purge of its result
NextLinkPurge ==
    \/ NextLink
    \/ /\ groups # <<>>
       /\ \E dry \in BOOLEAN : PurgeDuplicates(dry, {})

SpecLinkPurge == InitLink /\ [][NextLinkPurge]_vars

\* scanning where reads fail
InitIO == InitWith(FaultyFS, {DefaultConfig})

NextIO ==
    \E paths \in {<<D>>, <<Da, D>>}, use_byte_comparison \in BOOLEAN :
        Scan(paths, use_byte_comparison)

SpecIO == InitIO /\ [][NextIO]_vars

\* scanning where some directory cannot be listed
InitErr == InitWith(DeniedFS, {DefaultConfig, [DefaultConfig EXCEPT !.recursive = FALSE]})

SpecErr == InitErr /\ [][Next]_vars

\* _collect_files(paths) is entered
WalkBegin(paths) ==
    /\ pc = "ready"
    /\ walk' = [NoWalk EXCEPT !.roots = paths]
    /\ call' = [call EXCEPT !.paths = paths]
    /\ collected' = <<>>
    /\ pc' = "walking"
    /\ UNCHANGED <<fs, config, groups, dry_run, removed_count, log, cli>>

\* the body of `for path in paths` up to the listing of a directory root
WalkRoot ==
    /\ pc = "walking"
    /\ walk.pending = <<>>
    /\ walk.idx < Len(walk.roots)
    /\ LET path == walk.roots[walk.idx + 1]
           st == stat(fs, path)
           listing == [root |-> walk.idx + 1, dir |-> realpath(fs, path)]
       IN  IF st.kind = "file"
           THEN /\ collected' = IF _should_include_file(fs, config, path)
                                THEN Append(collected, path) ELSE collected
                /\ walk' = [walk EXCEPT !.idx = @ + 1]
                /\ pc' = pc
           ELSE IF st.kind = "dir" /\ config.recursive
                THEN /\ walk' = [walk EXCEPT !.idx = @ + 1,
                                             !.listed = Append(@, listing),
                                             !.pending = IF st.listable THEN iterdir(fs, path)
                                                         ELSE <<>>]
                     /\ UNCHANGED <<collected, pc>>
           ELSE IF st.kind = "dir"
                THEN /\ walk' = [walk EXCEPT !.idx = @ + 1, !.listed = Append(@, listing)]
                     /\ collected' = IF st.listable
                                     THEN collected \o direct_children(fs, config, path)
                                     ELSE collected
                     /\ pc' = IF st.listable THEN pc ELSE "raised"
           ELSE /\ walk' = [walk EXCEPT !.idx = @ + 1]
                /\ UNCHANGED <<collected, pc>>
    /\ UNCHANGED <<fs, config, call, groups, dry_run, removed_count, log, cli>>

\* one pass of `for item in directory.iterdir()`: a file is taken or not, a
\* directory is listed and its entries come before the entries still
\* pending, anything else is passed over
WalkItem ==
    /\ pc = "walking"
    /\ walk.pending # <<>>
    /\ LET item == Head(walk.pending)
           st == stat(fs, item)
       IN  IF st.kind = "file"
           THEN /\ collected' = IF _should_include_file(fs, config, item)
                                THEN Append(collected, item) ELSE collected
                /\ walk' = [walk EXCEPT !.pending = Tail(@)]
           ELSE IF descends_into(fs, config, item)
                THEN /\ walk' = [walk EXCEPT
                                   !.listed = Append(@, [root |-> walk.idx,
                                                         dir |-> realpath(fs, item)]),
                                   !.pending = (IF st.listable THEN iterdir(fs, item)
                                                ELSE <<>>) \o Tail(@)]
                     /\ UNCHANGED collected
           ELSE /\ walk' = [walk EXCEPT !.pending = Tail(@)]
                /\ UNCHANGED collected
    /\ UNCHANGED <<fs, config, pc, call, groups, dry_run, removed_count, log, cli>>

\* `return files`
WalkReturn ==
    /\ pc = "walking"
    /\ walk.pending = <<>>
    /\ walk.idx = Len(walk.roots)
    /\ pc' = "walked"
    /\ UNCHANGED <<fs, config, call, collected, groups, dry_run, removed_count, log, cli,
                   walk>>

\* trees with directory symlinks that point back to an ancestor
InitWalk == InitWith(CycleFS, LinkConfigs)

NextWalk ==
    \/ \E paths \in CycleRootLists : WalkBegin(paths)
    \/ WalkRoot
    \/ WalkItem
    \/ WalkReturn

\* collecting the files; a step that can be taken is taken
SpecWalk == InitWalk /\ [][NextWalk]_vars /\ WF_vars(NextWalk)

\* main up to the try block: the paths are validated and the scanner is
\* created
CliStart(args) ==
    /\ pc = "cli_start"
    /\ LET v == validate_paths(fs, args.paths)
       IN  IF v.valid_paths = <<>>
           THEN /\ cli' = [cli EXCEPT !.args = args,
                                      !.stderr = v.warnings \o <<[kind |-> "no_valid_paths"]>>,
                                      !.exit_code = 1]
                /\ pc' = "cli_exited"
                /\ UNCHANGED <<config, call>>
           ELSE /\ cli' = [cli EXCEPT !.args = args, !.stderr = v.warnings]
                /\ config' = __init__([DefaultConfig EXCEPT !.recursive = args.recursive]).self
                /\ call' = [args |-> [DefaultConfig EXCEPT !.recursive = args.recursive],
                            paths |-> v.valid_paths,
                            use_byte_comparison |-> args.all_bytes,
                            returned |-> None]
                /\ pc' = "cli_ready"
    /\ UNCHANGED <<fs, collected, groups, dry_run, removed_count, log, walk>>

\* scanner.scan is entered: the files are collected and grouped by size. An
\* exception out of it is reported by the `except Exception` clause.
CliScanBegin ==
    /\ pc = "cli_ready"
    /\ LET got == _collect_files(fs, config, call.paths)
       IN  IF got.raised
           THEN /\ cli' = [cli EXCEPT !.stderr = Append(@, [kind |-> "error"]),
                                      !.exit_code = 1]
                /\ pc' = "cli_exited"
                /\ UNCHANGED collected
           ELSE /\ collected' = got.files
                /\ cli' = [cli EXCEPT !.scan_left = IF got.files = <<>> THEN <<>>
                                                   ELSE _group_by_size(fs, got.files),
                                      !.scan_acc = <<>>]
                /\ pc' = "cli_scanning"
    /\ UNCHANGED <<fs, config, call, groups, dry_run, removed_count, log, walk>>

\* one pass of scan's loop over the size groups
CliScanStep ==
    /\ pc = "cli_scanning"
    /\ cli.scan_left # <<>>
    /\ cli' = [cli EXCEPT
                 !.scan_acc = @ \o groups_of_size_group(fs, config, Head(cli.scan_left).members,
                                                       call.use_byte_comparison),
                 !.scan_left = Tail(@)]
    /\ UNCHANGED <<fs, config, pc, call, collected, groups, dry_run, removed_count, log, walk>>

\* scan returns: main's duplicate_groups is assigned; with no group main
\* says so and returns
CliScanReturn ==
    /\ pc = "cli_scanning"
    /\ cli.scan_left = <<>>
    /\ groups' = cli.scan_acc
    /\ IF cli.scan_acc = <<>>
       THEN /\ cli' = [cli EXCEPT !.stdout = Append(@, [kind |-> "no_duplicates"]),
                                  !.exit_code = 0]
            /\ pc' = "cli_exited"
       ELSE /\ cli' = cli
            /\ pc' = "cli_scanned"
    /\ UNCHANGED <<fs, config, call, collected, dry_run, removed_count, log, walk>>

\* the results are written, to the output file or to stdout
CliReport ==
    /\ pc = "cli_scanned"
    /\ cli' = IF cli.args.output
              THEN [cli EXCEPT !.outfile = output_results(groups),
                               !.stdout = Append(@, [kind |-> "saved"])]
              ELSE [cli EXCEPT !.stdout = @ \o output_results(groups)]
    /\ pc' = "cli_reported"
    /\ UNCHANGED <<fs, config, call, collected, groups, dry_run, removed_count, log, walk>>

\* mutant: --dry-run is not passed on to the purge
CliPurgeIgnoringDryRun ==
    /\ pc = "cli_reported"
    /\ IF cli.args.purge
       THEN LET r == purge_duplicates(fs, groups, FALSE, {})
            IN  /\ fs' = r.fs
                /\ log' = r.log
                /\ removed_count' = r.removed_count
                /\ dry_run' = cli.args.dry_run
                /\ cli' = [cli EXCEPT !.stdout = Append(@, [kind |-> "removed_count"]),
                                      !.exit_code = 0]
       ELSE /\ cli' = [cli EXCEPT !.exit_code = 0]
            /\ UNCHANGED <<fs, log, removed_count, dry_run>>
    /\ pc' = "cli_exited"
    /\ UNCHANGED <<config, call, collected, groups, walk>>

\* the purge, if asked for, and the end of main
CliPurge ==
    /\ pc = "cli_reported"
    /\ IF cli.args.purge
       THEN LET r == purge_duplicates(fs, groups, cli.args.dry_run, {})
            IN  /\ fs' = r.fs
                /\ log' = r.log
                /\ removed_count' = r.removed_count
                /\ dry_run' = cli.args.dry_run
                /\ cli' = [cli EXCEPT
                             !.stdout = Append(@, IF cli.args.dry_run
                                                  THEN [kind |-> "dry_run_mode"]
                                                  ELSE [kind |-> "removed_count"]),
                             !.exit_code = 0]
       ELSE /\ cli' = [cli EXCEPT !.exit_code = 0]
            /\ UNCHANGED <<fs, log, removed_count, dry_run>>
    /\ pc' = "cli_exited"
    /\ UNCHANGED <<config, call, collected, groups, walk>>

\* Ctrl-C while main is inside the try block
CliInterrupt ==
    /\ pc \in {"cli_scanning", "cli_scanned", "cli_reported"}
    /\ cli' = handle_keyboard_interrupt(cli, pc)
    /\ pc' = "cli_exited"
    /\ UNCHANGED <<fs, config, call, collected, groups, dry_run, removed_count, log, walk>>

\* the command lines tried
CliArgs ==
    [paths : {<<D>>, <<Da, D>>, <<X>>, <<X, D>>}, all_bytes : BOOLEAN, purge : BOOLEAN,
     dry_run : BOOLEAN, output : BOOLEAN, recursive : BOOLEAN]

\* the trees the command line is run on: D can be listed or not
CliFS ==
    {MkFS(ca, cc, cb, u) : ca \in IOContents, cc \in IOContents, cb \in IOContents,
                           u \in {{}, {D}}}

InitCli ==
    /\ fs \in CliFS
    /\ config = NoScanner
    /\ pc = "cli_start"
    /\ call = NoCall
    /\ collected = <<>>
    /\ groups = <<>>
    /\ dry_run = FALSE
    /\ removed_count = 0
    /\ log = <<>>
    /\ cli = NoCli
    /\ walk = NoWalk

NextCli ==
    \/ \E args \in CliArgs : CliStart(args)
    \/ CliScanBegin
    \/ CliScanStep
    \/ CliScanReturn
    \/ CliReport
    \/ CliPurge
    \/ CliInterrupt

\* one run of `deduper scan`
SpecCli == InitCli /\ [][NextCli]_vars

\* delete_duplicates(groups, dry_run) of core.py on the groups at hand
DeleteDuplicates(dry, fails) ==
    /\ pc = "given"
    /\ LET r == delete_duplicates(fs, groups, dry, fails)
       IN  /\ fs' = r.fs
           /\ log' = r.log
    /\ dry_run' = dry
    /\ pc' = "deleted"
    /\ UNCHANGED <<config, call, collected, groups, removed_count, cli, walk>>

\* delete_duplicates called with any list of groups; the filesystem may
\* refuse any of the deletions
InitDelete ==
    /\ fs \in {MkNameFS(c) : c \in Contents}
    /\ config = DefaultConfig
    /\ pc = "given"
    /\ call = NoCall
    /\ collected = <<>>
    /\ groups \in GroupListsOver(NameFiles)
    /\ dry_run = FALSE
    /\ removed_count = 0
    /\ log = <<>>
    /\ cli = NoCli
    /\ walk = NoWalk

NextDelete ==
    \E dry \in BOOLEAN, fails \in SUBSET PathsIn(groups) :
        DeleteDuplicates(dry, fails)

SpecDelete == InitDelete /\ [][NextDelete]_vars

\* purge_duplicates called with any list of groups; the filesystem may
\* refuse any of the deletions
InitPurge ==
    /\ fs \in {MkFS(c, c, c, {}) : c \in Contents}
    /\ config = DefaultConfig
    /\ pc = "given"
    /\ call = NoCall
    /\ collected = <<>>
    /\ groups \in GroupLists
    /\ dry_run = FALSE
    /\ removed_count = 0
    /\ log = <<>>
    /\ cli = NoCli
    /\ walk = NoWalk

NextPurge ==
    \E dry \in BOOLEAN, fails \in SUBSET PathsIn(groups) :
        PurgeDuplicates(dry, fails)

SpecPurge == InitPurge /\ [][NextPurge]_vars

(***************************** claims **************************************)
\* the members of group g, as positions
Members(g) == 1..Len(g)

\* the sum over the groups of (length - 1)
RECURSIVE SumLenMinusOne(_)
SumLenMinusOne(gs) ==
    IF gs = <<>> THEN 0 ELSE (Len(Head(gs)) - 1) + SumLenMinusOne(Tail(gs))

\* the number of log entries with the given outcome
CountOutcome(lg, outcome) == Cardinality({k \in 1..Len(lg) : lg[k].outcome = outcome})

RECURSIVE NonKeepers(_)
\* every non-keeper member of every group, in purge order
NonKeepers(gs) ==
    IF gs = <<>> THEN <<>> ELSE files_to_remove_of(Head(gs)) \o NonKeepers(Tail(gs))

\* C1: after scan returns, under either strategy and every accepted
\* configuration, all members of every returned group hold the same bytes.
C1_MembersIdentical ==
    pc = "scanned" =>
        \A n \in 1..Len(groups) : \A i, j \in Members(groups[n]) :
            read_bytes(fs, groups[n][i]) = read_bytes(fs, groups[n][j])

\* C2: after a live purge of the groups scan returned in which no deletion
\* failed, the first member of every group still exists and every other
\* member is gone.
C2_KeeperStaysOthersGone ==
    (pc = "purged" /\ ~dry_run /\ CountOutcome(log, "error") = 0) =>
        \A n \in 1..Len(groups) :
            /\ exists(fs, groups[n][1])
            /\ \A i \in 2..Len(groups[n]) : ~exists(fs, groups[n][i])

\* C3: a dry-run purge leaves the filesystem exactly as it was.
C3_DryRunKeepsFilesystem ==
    [][(pc' = "purged" /\ dry_run') => fs' = fs]_vars

\* C3 happens: a dry run that went over at least two files
C3_Witness ==
    pc = "purged" /\ dry_run /\ CountOutcome(log, "would_remove") >= 2

C5_SizeBounds ==
    pc = "scanned" =>
        /\ \A p \in PathsIn(groups) :
              /\ st_size(fs, p) >= config.min_size
              /\ config.max_size # None => st_size(fs, p) <= config.max_size[1]
        /\ \A p \in Files :
              (/\ st_size(fs, p) >= config.min_size
               /\ config.max_size # None => st_size(fs, p) <= config.max_size[1])
              => _should_include_file(fs, config, p)

\* C6: on the same filesystem and roots the two strategies return the same
\* groups (no I/O error, no collision).
C6_StrategiesAgree ==
    pc = "scanned" =>
        groups = scan(fs, config, call.paths, ~call.use_byte_comparison).groups

\* C7: every returned group has at least 2 members, all of one size.
C7_GroupsOfTwoSameSize ==
    pc = "scanned" =>
        \A n \in 1..Len(groups) :
            /\ Len(groups[n]) >= 2
            /\ \A i, j \in Members(groups[n]) :
                  st_size(fs, groups[n][i]) = st_size(fs, groups[n][j])

\* C7 happens: a group of three was returned and some collected file is in
\* no group
C7_Witness ==
    /\ pc = "scanned"
    /\ \E n \in 1..Len(groups) : Len(groups[n]) = 3
    /\ \E p \in Range(collected) : p \notin PathsIn(groups)

\* C8: scan is complete: two collected files (paths) with the same content
\* are in one group, and a collected file whose content no other collected
\* file has is in no group.
C8_Complete ==
    pc = "scanned" =>
        /\ \A p, q \in Range(collected) :
              (p # q /\ read_bytes(fs, p) = read_bytes(fs, q)) =>
                  \E n \in 1..Len(groups) : {p, q} \subseteq Range(groups[n])
        /\ \A p \in Range(collected) :
              (\A q \in Range(collected) \ {p} : read_bytes(fs, q) # read_bytes(fs, p))
                  => p \notin PathsIn(groups)

\* the filesystem with every directory that cannot be listed taken as an
\* empty one: what skipping those directories amounts to
Skipped(f) ==
    Mount([p \in DOMAIN f.tree |->
             IF f.tree[p].kind = "dir" /\ ~f.tree[p].listable
             THEN DirNode(<<>>, TRUE) ELSE f.tree[p]])

\* C9: scan never raises because a directory cannot be listed, and returns
\* the groups of the files found elsewhere.
C9_ListingErrorNotFatal ==
    /\ pc # "raised"
    /\ pc = "scanned" =>
          groups = scan(Skipped(fs), config, call.paths, call.use_byte_comparison).groups

\* C10: a live purge attempts every non-keeper member of every group, in
\* order, whatever fails; it returns the number of deletions that
\* succeeded, which is the number of files that are gone.
C10_FailureDoesNotAbort ==
    (pc = "purged" /\ ~dry_run) =>
        /\ [k \in 1..Len(log) |-> log[k].path] = NonKeepers(groups)
        /\ \A k \in 1..Len(log) : log[k].outcome \in {"removed", "error"}
        /\ removed_count = CountOutcome(log, "removed")
        /\ removed_count = Cardinality({p \in Files : ~exists(fs, p)})

\* C10 happens: the first deletion of the first group failed and a member
\* of the second group was removed after it
C10_Witness ==
    /\ pc = "purged" /\ ~dry_run /\ Len(groups) = 2
    /\ Len(groups[1]) >= 2 /\ log # <<>>
    /\ log[1].outcome = "error" /\ log[1].path = groups[1][2]
    /\ \E k \in 2..Len(log) : log[k].outcome = "removed" /\ log[k].path \in Range(groups[2])
    /\ removed_count < Len(log)

\* C11: constructing with a hash algorithm outside {md5, sha1, sha256,
\* sha512} raises and leaves no scanner (no attribute is kept, nothing can
\* be called, so the filesystem is never reached); every algorithm of the
\* set is accepted and gives a scanner holding the arguments.
C11_AlgorithmValidated ==
    /\ pc = "init_raised" <=>
          (pc # "unbuilt" /\ call.args.hash_algorithm \notin {"md5", "sha1", "sha256", "sha512"})
    /\ pc = "init_raised" => (config = NoScanner /\ ~ENABLED NextNew)
    /\ pc \notin {"unbuilt", "init_raised"} => config = call.args

\* C11 happens: a name that differs from a supported one only in case was
\* refused
C11_Witness == pc = "init_raised" /\ call.args.hash_algorithm = "SHA256"

\* the roots of the call that exist, in the order given
ExistingRoots == SelectSeq(call.paths, LAMBDA p : exists(fs, p))

\* C12: scan does not raise for a root that does not exist: it collects
\* and returns exactly what it does for the other roots alone, and the
\* empty list when no root exists or no file is collected.
C12_MissingRootIgnored ==
    /\ pc # "raised"
    /\ pc = "scanned" =>
          LET others == scan(fs, config, ExistingRoots, call.use_byte_comparison)
          IN  /\ collected = others.files
              /\ groups = others.groups
              /\ (ExistingRoots = <<>> \/ collected = <<>>) => groups = <<>>

\* C12 happens: a missing root came first, and the files below the root
\* after it were grouped
C12_Witness ==
    /\ pc = "scanned" /\ call.paths = <<X, D>>
    /\ ~exists(fs, X) /\ groups # <<>>

\* some group holds both p and q
Grouped(p, q) == \E n \in 1..Len(groups) : {p, q} \subseteq Range(groups[n])

\* the scan comes to the entry D/S/m: as a root, as a direct child of the
\* root D/S, or during the recursion from the root D
ReachesDSm ==
    \/ DSm \in Range(call.paths)
    \/ DS \in Range(call.paths)
    \/ D \in Range(call.paths) /\ config.recursive

\* C13: with follow_symlinks false no member of a returned group is a
\* symlink, however it was reached; with follow_symlinks true a reached
\* symlink to a file is collected, and is grouped with every other collected
\* file holding the content of its target.
C13_SymlinkFiles ==
    pc = "scanned" =>
        /\ ~config.follow_symlinks =>
              \A p \in PathsIn(groups) \cup Range(collected) : ~is_symlink(fs, p)
        /\ config.follow_symlinks =>
              /\ (ReachesDSm /\ is_file(fs, DSm)) => DSm \in Range(collected)
              /\ \A p, q \in Range(collected) :
                    (p # q /\ is_symlink(fs, p) /\ read_bytes(fs, p) = read_bytes(fs, q))
                        => Grouped(p, q)

\* C13 happens: following links, the link m was grouped with the file c
\* next to it, and not with d
C13_Witness ==
    /\ pc = "scanned" /\ config.follow_symlinks /\ is_symlink(fs, DSm)
    /\ Grouped(DSm, DSc) /\ ~Grouped(DSm, DSd)

\* p lies below the root r with no symlinked directory entry between them
PlainlyBelow(r, p) ==
    /\ Len(r) <= Len(p) /\ SubSeq(p, 1, Len(r)) = r
    /\ \A k \in (Len(r) + 1)..(Len(p) - 1) : ~is_symlink(fs, SubSeq(p, 1, k))

\* C14: with follow_symlinks false every collected file lies below one of
\* the roots with no symlinked subdirectory on the way, so e, reachable from
\* D only through the link T, is not collected from D; with follow_symlinks
\* true the recursive traversal of D descends into T and collects it.
C14_SymlinkedDirs ==
    pc = "scanned" =>
        /\ ~config.follow_symlinks =>
              /\ \A p \in Range(collected) :
                    \E i \in 1..Len(call.paths) : PlainlyBelow(call.paths[i], p)
              /\ DT \notin Range(call.paths) => DTe \notin Range(collected)
        /\ (config.follow_symlinks /\ config.recursive /\ D \in Range(call.paths))
              => DTe \in Range(collected)

\* C14 happens: a recursive scan of D that does not follow links went
\* through S and left e out
C14_Witness ==
    /\ pc = "scanned" /\ ~config.follow_symlinks /\ config.recursive
    /\ call.paths = <<D>> /\ is_symlink(fs, DT) /\ is_dir(fs, DT)
    /\ DSc \in Range(collected) /\ DTe \notin Range(collected)

\* C15: with recursive false every collected file is a root or a direct
\* child of a root; when the only duplicates below D are c and d inside S,
\* the non-recursive scan of D returns no group and the recursive scan of
\* the same tree returns a group holding both.
C15_NonRecursiveDirectOnly ==
    (pc = "scanned" /\ ~config.recursive) =>
        /\ \A p \in Range(collected) :
              p \in Range(call.paths) \/ SubSeq(p, 1, Len(p) - 1) \in Range(call.paths)
        /\ (/\ call.paths = <<D>>
            /\ read_bytes(fs, DSc) = read_bytes(fs, DSd)
            /\ read_bytes(fs, Da) # read_bytes(fs, DSc))
              => /\ groups = <<>>
                 /\ LET rec == scan(fs, [config EXCEPT !.recursive = TRUE], call.paths,
                                    call.use_byte_comparison).groups
                    IN  \E n \in 1..Len(rec) : {DSc, DSd} \subseteq Range(rec[n])

\* C15 happens: a non-recursive scan of D where c and d inside S are the
\* only duplicates returned nothing
C15_Witness ==
    /\ pc = "scanned" /\ ~config.recursive /\ call.paths = <<D>>
    /\ read_bytes(fs, DSc) = read_bytes(fs, DSd)
    /\ read_bytes(fs, Da) # read_bytes(fs, DSc)
    /\ collected = <<Da>> /\ groups = <<>>

RECURSIVE IsSubsequence(_, _)
\* g can be got from s by leaving entries out, the order kept
IsSubsequence(g, s) ==
    IF g = <<>> THEN TRUE
    ELSE IF s = <<>> THEN FALSE
    ELSE IF Head(g) = Head(s) THEN IsSubsequence(Tail(g), Tail(s))
    ELSE IsSubsequence(g, Tail(s))

\* the position at which p was first collected
FirstCollected(p) == CHOOSE k \in 1..Len(collected) :
                        collected[k] = p /\ \A j \in 1..(k - 1) : collected[j] # p

\* C16: under either strategy the members of every group are in the order
\* in which they were collected, and no file with the content of the first
\* member was collected before it.
C16_FirstDiscoveredOrder ==
    pc = "scanned" =>
        \A n \in 1..Len(groups) :
            /\ IsSubsequence(groups[n], collected)
            /\ \A k \in 1..Len(collected) :
                  read_bytes(fs, collected[k]) = read_bytes(fs, groups[n][1])
                      => FirstCollected(groups[n][1]) <= k

\* C16 happens: the group of the three files in traversal order a, S/c, b,
\* which is not the sorted order
C16_Witness ==
    /\ pc = "scanned" /\ call.paths = <<D>>
    /\ groups = <<(<<Da, DSc, Db>>)>>

\* the files that cannot be opened for reading
Unreadable(f) == {p \in Files : <<p>> \in f.faults}

\* the filesystem without those files, and with no failing read
WithoutUnreadable(f) ==
    Mount([q \in DOMAIN f.tree |-> IF q \in Unreadable(f) THEN NoNode ELSE f.tree[q]])

\* C17: under the hash strategy scan does not raise when files cannot be
\* read; no such file is a member of a group, and the groups are those of a
\* scan in which these files are not there.
C17_UnreadableSkippedByHash ==
    /\ pc # "raised"
    /\ (pc = "scanned" /\ ~call.use_byte_comparison) =>
          /\ PathsIn(groups) \cap Unreadable(fs) = {}
          /\ groups = scan(WithoutUnreadable(fs), config, call.paths, FALSE).groups

\* C17 happens: c, between a and b in traversal order and with their
\* content, could not be read, and a and b were grouped
C17_Witness ==
    /\ pc = "scanned" /\ ~call.use_byte_comparison /\ call.paths = <<D>>
    /\ Unreadable(fs) = {DSc}
    /\ read_bytes(fs, DSc) = read_bytes(fs, Da)
    /\ groups = <<(<<Da, Db>>)>>

\* the members that joined a group as candidates
NonFirst == UNION {{groups[n][i] : i \in 2..Len(groups[n])} : n \in 1..Len(groups)}

\* p was collected before q
Before(p, q) == FirstCollected(p) < FirstCollected(q)

\* C18: under byte comparison scan does not raise when a comparison fails;
\* no candidate is in the group of a reference whose comparison with it
\* failed; and every file that joined no group as a candidate acts as a
\* reference: each later file with its content whose comparison with it did
\* not fail is in its group, unless an earlier reference took it.
C18_CompareErrorIsPairOnly ==
    /\ pc # "raised"
    /\ (pc = "scanned" /\ call.use_byte_comparison) =>
          /\ \A n \in 1..Len(groups) : \A i \in 2..Len(groups[n]) :
                ~_files_are_identical_raises(fs, groups[n][1], groups[n][i])
          /\ \A r, q \in Range(collected) :
                (/\ r \notin NonFirst
                 /\ Before(r, q)
                 /\ read_bytes(fs, r) = read_bytes(fs, q)
                 /\ ~_files_are_identical_raises(fs, r, q))
                    => \E n \in 1..Len(groups) :
                          /\ \E i \in 2..Len(groups[n]) : groups[n][i] = q
                          /\ groups[n][1] = r \/ Before(groups[n][1], r)

\* C18 happens: the comparisons of a with c and with b failed; c, left
\* unmatched, then started the group that b joined
C18_Witness ==
    /\ pc = "scanned" /\ call.use_byte_comparison /\ call.paths = <<D>>
    /\ fs.faults = {<<Da, DSc>>, <<Da, Db>>}
    /\ read_bytes(fs, Da) = read_bytes(fs, DSc)
    /\ groups = <<(<<DSc, Db>>)>>

\* the entries of the log that group n produced, in order
LogOfGroup(n) == SelectSeq(log, LAMBDA e : e.group = n)

\* the member of g with the fewest characters in its name, the earliest
\* among those
Keeper(g) ==
    LET least == CHOOSE m \in {name_len(g[i]) : i \in 1..Len(g)} :
                    \A i \in 1..Len(g) : m <= name_len(g[i])
        first == CHOOSE i \in 1..Len(g) :
                    name_len(g[i]) = least /\ \A j \in 1..(i - 1) : name_len(g[j]) # least
    IN  g[first]

\* C19: delete_duplicates keeps, in every group of at least 2 members,
\* exactly the member with the shortest file name, the earliest among ties:
\* it is announced as kept and never touched; every other member is, in
\* order, listed in dry-run mode and unlinked in live mode. Files reported
\* as deleted are gone, a deletion that failed leaves the file (unless the
\* path was deleted before), and a dry run removes nothing.
C19_ShortestNameKept ==
    pc = "deleted" =>
        /\ \A n \in 1..Len(groups) :
              LET g == groups[n]
                  es == LogOfGroup(n)
                  others == SelectSeq(g, LAMBDA p : p # Keeper(g))
              IN  IF Len(g) < 2 THEN es = <<>>
                  ELSE /\ Len(es) = 1 + Len(others)
                       /\ es[1].outcome = "keep" /\ es[1].path = Keeper(g)
                       /\ \A k \in 1..Len(others) :
                             /\ es[k + 1].path = others[k]
                             /\ es[k + 1].outcome \in
                                   (IF dry_run THEN {"would_delete"} ELSE {"deleted", "error"})
        /\ \A k \in 1..Len(log) :
              /\ log[k].outcome = "deleted" => ~exists(fs, log[k].path)
              /\ log[k].outcome = "error" =>
                    \/ exists(fs, log[k].path)
                    \/ \E j \in 1..(k - 1) :
                          log[j].path = log[k].path /\ log[j].outcome = "deleted"
        /\ \A p \in NameFiles :
              ~exists(fs, p) <=>
                  \E k \in 1..Len(log) : log[k].path = p /\ log[k].outcome = "deleted"
        /\ dry_run => \A p \in NameFiles : exists(fs, p)

\* C19 happens: a live run on the group ab, c, d kept c, whose path is the
\* longest, and deleted ab and d
C19_Witness ==
    /\ pc = "deleted" /\ ~dry_run /\ groups = <<(<<Dab, DSc, Dd>>)>>
    /\ exists(fs, DSc) /\ ~exists(fs, Dab) /\ ~exists(fs, Dd)
    /\ log[1] = [path |-> DSc, outcome |-> "keep", group |-> 1]

\* some line of the listing of groups is in out
HasListing(out) == \E k \in 1..Len(out) : out[k].kind \in {"found", "group", "member"}

\* C20: after Ctrl-C during the scan nothing of the groups has been shown,
\* on stdout or in the output file, main's duplicate_groups was never
\* assigned, nothing was purged, the cancellation is on stderr and the exit
\* status is 1.
C20_InterruptSurfacesNothing ==
    cli.interrupted_at = "cli_scanning" =>
        /\ pc = "cli_exited"
        /\ ~HasListing(cli.stdout) /\ cli.stdout = <<>> /\ cli.outfile = <<>>
        /\ groups = <<>>
        /\ log = <<>> /\ removed_count = 0 /\ \A p \in Files : exists(fs, p)
        /\ cli.stderr # <<>> /\ cli.stderr[Len(cli.stderr)].kind = "cancelled"
        /\ cli.exit_code \notin {0, Running}

\* C20 happens: Ctrl-C came when the scan had found a group and had another
\* size group still to handle, in a run asked to purge
C20_Witness ==
    /\ cli.interrupted_at = "cli_scanning"
    /\ cli.scan_acc # <<>> /\ cli.scan_left # <<>>
    /\ cli.args.purge /\ ~cli.args.dry_run

\* none of the paths on the command line existed when the run began (a run
\* removes files only, and every fixture tree starts with D and its files)
NoPathExisted == \A i \in 1..Len(cli.args.paths) : cli.args.paths[i] \notin Dirs \cup Files

\* the scan meets an error it does not handle: D is listed outside any try
\* block and cannot be listed
ScanFails ==
    /\ ~cli.args.recursive
    /\ ~fs.tree[D].listable
    /\ D \in Range(cli.args.paths)

\* C21: the scan command exits with status 1 when none of the paths given
\* exists, when an exception ends the run (an error out of the scan, or the
\* user's interruption), and with status 0 in every other case, the case of
\* no duplicates included.
C21_ExitStatus ==
    pc = "cli_exited" =>
        /\ cli.exit_code \in {0, 1}
        /\ cli.exit_code # 0 <=> (NoPathExisted \/ ScanFails \/ cli.interrupted_at # "")
        /\ (\E k \in 1..Len(cli.stdout) : cli.stdout[k].kind = "no_duplicates")
              => cli.exit_code = 0

\* C21 happens: one of two paths was missing, the scan of the other found
\* no duplicates, and the status is 0
C21_Witness ==
    /\ pc = "cli_exited" /\ cli.args.paths = <<X, D>>
    /\ cli.stderr = <<[kind |-> "warning_missing", path |-> X]>>
    /\ cli.stdout = <<[kind |-> "no_duplicates"]>>
    /\ cli.exit_code = 0

\* no directory was listed twice for one root
DirsListedOnce ==
    \A i, j \in 1..Len(walk.listed) : i # j => walk.listed[i] # walk.listed[j]

\* C22: collecting the files comes to an end on every tree, trees with
\* directory symlinks back to an ancestor included, and with follow_symlinks
\* false every real directory has then been listed at most once per root.
C22_TerminatesListingOnce ==
    <>(pc = "walked" /\ (~config.follow_symlinks => DirsListedOnce))

\* C22 happens: from a root that is a link back to D, not following links,
\* D and S were listed once each and a and c collected through the link
C22_Witness ==
    /\ pc = "walked" /\ ~config.follow_symlinks /\ config.recursive
    /\ walk.roots = <<DU>>
    /\ walk.listed = <<[root |-> 1, dir |-> D], [root |-> 1, dir |-> DS]>>
    /\ collected = <<(<<"D", "U", "a">>), (<<"D", "U", "S", "c">>)>>

\* the entries of the collected list whose size no other entry has
UniqueSize ==
    {collected[k] : k \in {k \in 1..Len(collected) :
        \A m \in 1..Len(collected) :
            m # k => st_size(fs, collected[m]) # st_size(fs, collected[k])}}

C24_IdenticalIffSameBytes ==
    pc = "compared" =>
        LET content1 == read_bytes(fs, call.paths[1])
            content2 == read_bytes(fs, call.paths[2])
        IN  /\ call.returned \in {Some(TRUE), Some(FALSE)}
            /\ call.returned = Some(TRUE) <=>
                   /\ Len(content1) = Len(content2)
                   /\ \A i \in 1..Len(content1) : content1[i] = content2[i]

\* C24 happens: three bytes read two at a time, the files differ in the
\* last byte only
C24_Witness ==
    /\ pc = "compared" /\ call.paths = <<Da, Db>> /\ config.chunk_size = 2
    /\ read_bytes(fs, Da) = <<0, 1, 0>> /\ read_bytes(fs, Db) = <<0, 1, 1>>
    /\ call.returned = Some(FALSE)

\* the lines of the result listing, on stdout or in the output file
Listing == IF cli.args.output THEN cli.outfile ELSE cli.stdout

\* the member lines of group n in the listing
MemberLines(n) == SelectSeq(Listing, LAMBDA l : l.kind = "member" /\ l.group = n)

\* C25: in the listing exactly one member of each group is marked [KEEP]
\* and every other member [DUPLICATE], and the member marked [KEEP] is
\* exactly the member that the purge of that group does not delete.
C25_KeepMarksTheSurvivor ==
    (pc = "cli_exited" /\ cli.interrupted_at = "" /\ groups # <<>>) =>
        \A n \in 1..Len(groups) :
            /\ Len(MemberLines(n)) = Len(groups[n])
            /\ Cardinality({k \in 1..Len(groups[n]) : MemberLines(n)[k].marker = "KEEP"}) = 1
            /\ \A k \in 1..Len(groups[n]) :
                  /\ MemberLines(n)[k].path = groups[n][k]
                  /\ MemberLines(n)[k].marker \in {"KEEP", "DUPLICATE"}
                  /\ (cli.args.purge /\ ~cli.args.dry_run) =>
                        (MemberLines(n)[k].marker = "KEEP" <=> exists(fs, groups[n][k]))

\* the unit of size_bytes: the largest power of 1024 not above it
UnitIndex(size_bytes) == floor_log_1024(size_bytes)

\* C26: format_file_size gives "0 B" for 0 and, for a size of at least 1024
\* bytes whose value in the largest power-of-1024 unit not above it is
\* below 100, that value with one decimal place: "1.0 KB" for 1024,
\* "1.5 KB" for 1536, "15.0 KB" for 15360, "1.0 MB" for 1048576, "1.0 GB"
\* for 1073741824.
C26_OneDecimalBelow100 ==
    pc = "formatted" =>
        LET size_bytes == call.args.size_bytes
            text == call.returned[1]
        IN  /\ size_bytes = 0 => text = "0 B"
            /\ (/\ size_bytes >= 1024
                /\ size_bytes \div Pow(1024, UnitIndex(size_bytes)) < 100) =>
                   text = fixed(size_bytes, UnitIndex(size_bytes), 1) \o " "
                          \o units[UnitIndex(size_bytes) + 1]
            /\ size_bytes = 1024 => text = "1.0 KB"
            /\ size_bytes = 1536 => text = "1.5 KB"
            /\ size_bytes = 15360 => text = "15.0 KB"
            /\ size_bytes = 1048576 => text = "1.0 MB"
            /\ size_bytes = 1073741824 => text = "1.0 GB"

\* group n keeps its content from filesystem f to filesystem g: some path
\* of the group is in g a readable file holding what the group held in f
ContentKept(f, g, n) ==
    \E i \in 1..Len(groups[n]) :
        /\ ~open_raises(g, groups[n][i])
        /\ read_bytes(g, groups[n][i]) = read_bytes(f, groups[n][1])

\* C27: a live purge of the groups that scan returned loses no content:
\* for every group, at least one of its paths is afterwards still a
\* readable file that holds the group's original content.
C27_NoContentLost ==
    [][(pc = "scanned" /\ pc' = "purged" /\ ~dry_run') =>
          \A n \in 1..Len(groups) : ContentKept(fs, fs', n)]_vars

\* C28: across the list that scan returns no path occurs more than once,
\* neither twice in one group nor in two groups, whichever the strategy
\* and the roots.
C28_NoPathTwice ==
    pc = "scanned" =>
        \A n, m \in 1..Len(groups) :
            \A i \in 1..Len(groups[n]), j \in 1..Len(groups[m]) :
                groups[n][i] = groups[m][j] => (n = m /\ i = j)

\* the listing of the duplicate groups has been written
Reported == \E k \in 1..Len(Listing) : Listing[k].kind = "found"

\* C29: in `deduper scan` a file is removed only when --purge is given
\* without --dry-run and only after the duplicate groups have been
\* reported; with --dry-run, without --purge, or when no duplicates are
\* found, the filesystem stays as it was.
C29_DeletesOnlyOnLivePurge ==
    [][fs' # fs =>
          /\ cli.args.purge /\ ~cli.args.dry_run
          /\ groups # <<>>
          /\ Reported]_vars

\* C29 happens: a live purge removed b after the listing was written
C29_Witness ==
    /\ pc = "cli_exited" /\ cli.args.purge /\ ~cli.args.dry_run /\ ~cli.args.output
    /\ cli.args.paths = <<D>>
    /\ Reported
    /\ cli.stdout[Len(cli.stdout)].kind = "removed_count"
    /\ exists(fs, Da) /\ ~exists(fs, Db)
    /\ removed_count >= 1

====
